---- MODULE Spec2Model ----
(***************************************************************************)
(* Model of the image plugin's neural-network component                    *)
(* (EBNeuralNetworkImageComponent): getTensorSchema and the configurable   *)
(* generateInputStack that walks schema.configuration.interpretation       *)
(* .layers.                                                                *)
(*                                                                         *)
(* JavaScript values that come out of a layer descriptor may be numbers,   *)
(* booleans, undefined or (for lastConvLayerKernelSize) null; they are     *)
(* modelled as records [kind, val, den].  A number is val/den, so that the *)
(* dropout ratio 0.4 is Frac(4, 10).  width and height are always numbers  *)
(* in the code (100 and its floor-halvings) and are kept as integers.      *)
(***************************************************************************)
EXTENDS Integers, Sequences, FiniteSets, TLC

\* ---------------------------------------------------------------- bounds
\* longest layer stack built from the full set of descriptors
MaxLayers == 3
\* longest layer stack built from convolution / 2x2 max pooling only
MaxDeep == 8

\* longest layer stack of a field whose methods are called repeatedly
MaxTwiceLayers == 2
\* number of rounds of calls the caller makes
MaxCalls == 2

\* longest layer stack of a field whose other methods are called
MaxMethodLayers == 1

\* longest buffer handed to checkValue, in bytes
MaxBytes == 3

\* longest list the layer-stack editor is driven to
MaxData == 5

\* number of accumulateValue calls made on one accumulator
MaxValues == 3

\* longest layer stack of a field whose stack is edited between the calls
MaxPairLayers == 2

\* ------------------------------------------------------ JavaScript values
Num(n) == [kind |-> "number", val |-> n, den |-> 1]
Frac(n, d) == [kind |-> "number", val |-> n, den |-> d]
Bool(b) == [kind |-> "boolean", val |-> (IF b THEN 1 ELSE 0), den |-> 1]
Undefined == [kind |-> "undefined", val |-> 0, den |-> 1]
Null == [kind |-> "null", val |-> 0, den |-> 1]
NaN == [kind |-> "NaN", val |-> 0, den |-> 1]
Str(text) == [kind |-> "string", val |-> 0, den |-> 1, text |-> text]

\* ToNumber of the operands, then the product: undefined and NaN give NaN,
\* null is 0, true is 1, false is 0.
JsMul(a, b) ==
    IF a.kind \in {"undefined", "NaN"} \/ b.kind \in {"undefined", "NaN"}
    THEN NaN
    ELSE [kind |-> "number", val |-> a.val * b.val, den |-> a.den * b.den]

\* entry.field : a property the object does not have reads as undefined
Get(entry, field) ==
    IF field \in DOMAIN entry THEN entry[field] ELSE Undefined

\* Math.floor(n / 2) for a number n >= 0
FloorHalf(n) == n \div 2

\* ------------------------------------------------- collaborating classes
EBTorchModule(moduleName, params, children) ==
    [module |-> moduleName, params |-> params, children |-> children]

EBTorchNode(module, input, nodeName) ==
    [module |-> module, input |-> input, name |-> nodeName]

generateDataTensorSchema(size, variableName) ==
    [type |-> "tensor",
     variableName |-> variableName,
     tensorDimensions |-> << [size |-> size, label |-> "features"] >>,
     tensorMap |-> (variableName :> [start |-> 1, size |-> size])]

\* ------------------------------------------------------ layer descriptors
ConvolutionEntry(nIn, nOut, kernel, step, padding) ==
    [layerType |-> "convolution",
     nInputPlane |-> Num(nIn), nOutputPlane |-> Num(nOut),
     kernelWidth |-> Num(kernel), kernelHeight |-> Num(kernel),
     stepWidth |-> Num(step), stepHeight |-> Num(step),
     paddingWidth |-> Num(padding), paddingHeight |-> Num(padding)]

MaxPoolingEntry(kernel, step) ==
    [layerType |-> "maxpooling",
     nKernelWidth |-> Num(kernel), nKernelHeight |-> Num(kernel),
     nStepWidth |-> Num(step), nStepHeight |-> Num(step)]

\* the descriptors of the layer-type palette
PaletteEntries ==
    { ConvolutionEntry(3, 32, 3, 1, 1),
      [layerType |-> "batchnormalization", nInputFeatures |-> Num(32)],
      [layerType |-> "relu", nState |-> Bool(TRUE)],
      MaxPoolingEntry(2, 2),
      [layerType |-> "dropout", nRatio |-> Frac(4, 10)] }

\* other descriptors a configuration can hold: a strided, unpadded
\* convolution; a pooling whose kernel and stride are not 2; a descriptor
\* without its numeric fields; a zero kernel; a ratio of 1.5; an unknown tag
OtherEntries ==
    { ConvolutionEntry(32, 64, 3, 2, 0),
      MaxPoolingEntry(3, 1),
      [layerType |-> "convolution"],
      MaxPoolingEntry(0, 2),
      [layerType |-> "dropout", nRatio |-> Frac(15, 10)],
      [layerType |-> "normalization_v2"] }

Entries == PaletteEntries \cup OtherEntries

DeepEntries == { ConvolutionEntry(3, 32, 3, 1, 1), MaxPoolingEntry(2, 2) }

StacksOver(E, n) == UNION { [1..k -> E] : k \in 0..n }

\* the stack of the shape-propagation example: 3 -> 32, pool, 32 -> 64, pool
ExampleStack ==
    << ConvolutionEntry(3, 32, 3, 1, 1), MaxPoolingEntry(2, 2),
       ConvolutionEntry(32, 64, 3, 1, 1), MaxPoolingEntry(2, 2) >>

\* seven poolings take 100 down to 0; the convolution after them is a
\* descriptor as the layer editor creates it, without numeric fields
DegenerateStack ==
    [i \in 1..7 |-> MaxPoolingEntry(2, 2)] \o << [layerType |-> "convolution"] >>

LayerStacks ==
    StacksOver(Entries, MaxLayers) \cup StacksOver(DeepEntries, MaxDeep)
        \cup { ExampleStack, DegenerateStack }

\* ---------------------------------------------------------------- schemas
Schema(variableName, isField, mainInterpretation, stack) ==
    [variableName |-> variableName,
     isField |-> isField,
     metadata |-> [mainInterpretation |-> mainInterpretation],
     configuration |-> [interpretation |-> [layers |-> stack]]]

Schemas ==
    { Schema(f[1], f[2], f[3], stack) :
        f \in { <<"photo", TRUE, "image">>, <<"scan", TRUE, "image">>,
                 <<"album", FALSE, "image">>, <<"caption", TRUE, "string">> },
        stack \in LayerStacks }

InputNodes == { [name |-> "input"] }

\* ------------------------------------------------------------------ state
VARIABLES
    schema,                  \* argument of both calls
    inputNode,               \* argument of generateInputStack
    pc,                      \* position of the caller / of generateInputStack
    tensorSchema,            \* value returned by getTensorSchema
    name,                    \* locals of generateInputStack ...
    width,
    height,
    lastConvLayerKernelSize,
    torchModules,
    index,                   \* position of forEach in layers (1-based)
    result,                  \* completion of the method that was called
    call,                    \* the method called last and its name argument
    previous,                \* arguments and results of the call before
    calls,                   \* number of the current round of calls
    checkedValue,            \* argument of checkValue
    data,                    \* $scope.data of the layer-stack editor
    console,                 \* what console.log printed last
    widths,                  \* this.widths of the field accumulator
    heights,                 \* this.heights of the field accumulator
    promises                 \* the metadata() promise of each accumulateValue call

vars == << schema, inputNode, pc, tensorSchema, name, width, height,
           lastConvLayerKernelSize, torchModules, index, result,
           call, previous, calls,
           checkedValue, data, console, widths, heights, promises >>

\* what the caller keeps between rounds of calls
session == << call, previous, calls >>

locals == << name, width, height, lastConvLayerKernelSize, torchModules, index >>

\* state of the interpretation, of its accumulator and of the editor: no
\* method of the component reads or writes it
outside == << checkedValue, data, console, widths, heights, promises >>

\* the component's own state, which those objects in turn never touch
component == << schema, inputNode, tensorSchema, locals >>

Pending == [kind |-> "pending"]
Return(value) == [kind |-> "return", value |-> value]
Throw(error) == [kind |-> "throw", error |-> error]
NoCall == [fn |-> "none", name |-> ""]

Layers == schema.configuration.interpretation.layers

\* ------------------------------------------------- static image geometry
getImageSizeForSchema(s) == [width |-> 100, height |-> 100]

getImageChannelsForSchema(s) == 3

\* -------------------------------------------------------- getTensorSchema
\* variant: the map entry's size leaves the channels out
getTensorSchema_NoChannels(s) ==
    LET size == getImageSizeForSchema(s)
        channels == getImageChannelsForSchema(s)
    IN  [type |-> "tensor",
         variableName |-> s.variableName,
         tensorDimensions |->
             << [size |-> size.width, label |-> "width"],
                [size |-> size.height, label |-> "height"],
                [size |-> channels, label |-> "channels"] >>,
         tensorMap |->
             (s.variableName :>
                 [start |-> 1, size |-> size.width * size.height])]

\* variant: channels first, and a zero-based start
getTensorSchema_ChannelsFirst(s) ==
    LET size == getImageSizeForSchema(s)
        channels == getImageChannelsForSchema(s)
    IN  [type |-> "tensor",
         variableName |-> s.variableName,
         tensorDimensions |->
             << [size |-> channels, label |-> "channels"],
                [size |-> size.width, label |-> "width"],
                [size |-> size.height, label |-> "height"] >>,
         tensorMap |->
             (s.variableName :>
                 [start |-> 0, size |-> size.width * size.height * channels])]

getTensorSchema(s) ==
    LET size == getImageSizeForSchema(s)
        channels == getImageChannelsForSchema(s)
    IN  [type |-> "tensor",
         variableName |-> s.variableName,
         tensorDimensions |->
             << [size |-> size.width, label |-> "width"],
                [size |-> size.height, label |-> "height"],
                [size |-> channels, label |-> "channels"] >>,
         tensorMap |->
             (s.variableName :>
                 [start |-> 1, size |-> size.width * size.height * channels])]

Init ==
    /\ schema \in Schemas
    /\ inputNode \in InputNodes
    /\ pc = "start"
    /\ tensorSchema = Pending
    /\ name = ""
    /\ width = 0
    /\ height = 0
    /\ lastConvLayerKernelSize = Null
    /\ torchModules = << >>
    /\ index = 0
    /\ result = Pending
    /\ call = NoCall
    /\ previous = Pending
    /\ calls = 1
    /\ checkedValue = Undefined
    /\ data = << >>
    /\ console = Undefined
    /\ widths = << >>
    /\ heights = << >>
    /\ promises = << >>

\* the pipeline asks for the field's tensor layout first
CallGetTensorSchema ==
    /\ pc = "start"
    /\ tensorSchema' = Return(getTensorSchema(schema))
    /\ pc' = "resolved"
    /\ UNCHANGED << schema, inputNode, outside, locals, result, session >>

\* ----------------------------------------------------- generateInputStack
\* variant: the module list outlives the call (it is not a fresh local)
EnterGenerateInputStack_KeepsModules ==
    /\ pc = "resolved"
    /\ name' = schema.variableName
    /\ width' = getImageSizeForSchema(schema).width
    /\ height' = getImageSizeForSchema(schema).height
    /\ lastConvLayerKernelSize' = Null
    /\ torchModules' = torchModules
    /\ index' = 1
    /\ pc' = "forEach"
    /\ UNCHANGED << schema, inputNode, outside, tensorSchema, result, session >>

\* variant: width, height and the channel count are set on the first call
\* only and carried over afterwards
EnterGenerateInputStack_KeepsSize ==
    /\ pc = "resolved"
    /\ name' = schema.variableName
    /\ width' = (IF calls = 1 THEN getImageSizeForSchema(schema).width ELSE width)
    /\ height' = (IF calls = 1 THEN getImageSizeForSchema(schema).height ELSE height)
    /\ lastConvLayerKernelSize' = (IF calls = 1 THEN Null ELSE lastConvLayerKernelSize)
    /\ torchModules' = << >>
    /\ index' = 1
    /\ pc' = "forEach"
    /\ UNCHANGED << schema, inputNode, outside, tensorSchema, result, session >>

\* entry of the call: the locals before the forEach
EnterGenerateInputStack ==
    /\ pc = "resolved"
    /\ name' = schema.variableName
    /\ width' = getImageSizeForSchema(schema).width
    /\ height' = getImageSizeForSchema(schema).height
    /\ lastConvLayerKernelSize' = Null
    /\ torchModules' = << >>
    /\ index' = 1
    /\ pc' = "forEach"
    /\ UNCHANGED << schema, inputNode, outside, tensorSchema, result, session >>

AtEntry(layerType) ==
    /\ pc = "forEach"
    /\ index <= Len(Layers)
    /\ Layers[index].layerType = layerType

NextEntry ==
    /\ index' = index + 1
    /\ UNCHANGED << schema, inputNode, outside, pc, tensorSchema, name, result, session >>

\* variant: the running size follows the convolution's stride and padding
Convolution_Strided ==
    /\ AtEntry("convolution")
    /\ LET entry == Layers[index]
           convModule == EBTorchModule("nn.SpatialConvolution",
               << Get(entry, "nInputPlane"), Get(entry, "nOutputPlane"),
                  Get(entry, "kernelWidth"), Get(entry, "kernelHeight"),
                  Get(entry, "stepWidth"), Get(entry, "stepHeight"),
                  Get(entry, "paddingWidth"), Get(entry, "paddingHeight") >>, << >>)
           k == Get(entry, "kernelWidth").val
           st == Get(entry, "stepWidth").val
           pad == Get(entry, "paddingWidth").val
       IN  /\ torchModules' = Append(torchModules, convModule)
           /\ lastConvLayerKernelSize' = Get(entry, "nOutputPlane")
           /\ width' = (IF st > 0 THEN (width + 2 * pad - k) \div st + 1 ELSE width)
           /\ height' = (IF st > 0 THEN (height + 2 * pad - k) \div st + 1 ELSE height)
    /\ NextEntry

\* variant: a convolution restores the image's width and height, so that the
\* poolings before it no longer count
Convolution_ResetsSize ==
    /\ AtEntry("convolution")
    /\ LET entry == Layers[index]
           convModule == EBTorchModule("nn.SpatialConvolution",
               << Get(entry, "nInputPlane"), Get(entry, "nOutputPlane"),
                  Get(entry, "kernelWidth"), Get(entry, "kernelHeight"),
                  Get(entry, "stepWidth"), Get(entry, "stepHeight"),
                  Get(entry, "paddingWidth"), Get(entry, "paddingHeight") >>, << >>)
       IN  /\ torchModules' = Append(torchModules, convModule)
           /\ lastConvLayerKernelSize' = Get(entry, "nOutputPlane")
    /\ width' = getImageSizeForSchema(schema).width
    /\ height' = getImageSizeForSchema(schema).height
    /\ NextEntry

Convolution ==
    /\ AtEntry("convolution")
    /\ LET entry == Layers[index]
           convModule == EBTorchModule("nn.SpatialConvolution",
               << Get(entry, "nInputPlane"), Get(entry, "nOutputPlane"),
                  Get(entry, "kernelWidth"), Get(entry, "kernelHeight"),
                  Get(entry, "stepWidth"), Get(entry, "stepHeight"),
                  Get(entry, "paddingWidth"), Get(entry, "paddingHeight") >>, << >>)
       IN  /\ torchModules' = Append(torchModules, convModule)
           /\ lastConvLayerKernelSize' = Get(entry, "nOutputPlane")
    /\ UNCHANGED << width, height >>
    /\ NextEntry

\* variant: batch normalisation takes over the running channel count
BatchNormalization_SetsChannels ==
    /\ AtEntry("batchnormalization")
    /\ LET entry == Layers[index]
           batchNormal == EBTorchModule("nn.SpatialBatchNormalization",
               << Get(entry, "nInputFeatures") >>, << >>)
       IN  /\ torchModules' = Append(torchModules, batchNormal)
           /\ lastConvLayerKernelSize' = Get(entry, "nInputFeatures")
    /\ UNCHANGED << width, height >>
    /\ NextEntry

BatchNormalization ==
    /\ AtEntry("batchnormalization")
    /\ LET entry == Layers[index]
           batchNormal == EBTorchModule("nn.SpatialBatchNormalization",
               << Get(entry, "nInputFeatures") >>, << >>)
       IN  torchModules' = Append(torchModules, batchNormal)
    /\ UNCHANGED << width, height, lastConvLayerKernelSize >>
    /\ NextEntry

ReLU ==
    /\ AtEntry("relu")
    /\ LET entry == Layers[index]
           reluModule == EBTorchModule("nn.ReLU", << Get(entry, "nState") >>, << >>)
       IN  torchModules' = Append(torchModules, reluModule)
    /\ UNCHANGED << width, height, lastConvLayerKernelSize >>
    /\ NextEntry

Dropout ==
    /\ AtEntry("dropout")
    /\ LET entry == Layers[index]
           dropoutModule == EBTorchModule("nn.Dropout", << Get(entry, "nRatio") >>, << >>)
       IN  torchModules' = Append(torchModules, dropoutModule)
    /\ UNCHANGED << width, height, lastConvLayerKernelSize >>
    /\ NextEntry

\* variant: only the width is halved
MaxPooling_WidthOnly ==
    /\ AtEntry("maxpooling")
    /\ LET entry == Layers[index]
           maxpoolModule == EBTorchModule("nn.SpatialMaxPooling",
               << Get(entry, "nKernelWidth"), Get(entry, "nKernelHeight"),
                  Get(entry, "nStepWidth"), Get(entry, "nStepHeight") >>, << >>)
       IN  torchModules' = Append(torchModules, maxpoolModule)
    /\ width' = FloorHalf(width)
    /\ UNCHANGED << height, lastConvLayerKernelSize >>
    /\ NextEntry

\* variant: the running size follows the pooling's own kernel and stride
MaxPooling_FromKernelAndStride ==
    /\ AtEntry("maxpooling")
    /\ LET entry == Layers[index]
           maxpoolModule == EBTorchModule("nn.SpatialMaxPooling",
               << Get(entry, "nKernelWidth"), Get(entry, "nKernelHeight"),
                  Get(entry, "nStepWidth"), Get(entry, "nStepHeight") >>, << >>)
           k == Get(entry, "nKernelWidth").val
           st == Get(entry, "nStepWidth").val
       IN  /\ torchModules' = Append(torchModules, maxpoolModule)
           /\ width' = (IF st > 0 /\ width >= k THEN (width - k) \div st + 1 ELSE 0)
           /\ height' = (IF st > 0 /\ height >= k THEN (height - k) \div st + 1 ELSE 0)
    /\ UNCHANGED lastConvLayerKernelSize
    /\ NextEntry

MaxPooling ==
    /\ AtEntry("maxpooling")
    /\ LET entry == Layers[index]
           maxpoolModule == EBTorchModule("nn.SpatialMaxPooling",
               << Get(entry, "nKernelWidth"), Get(entry, "nKernelHeight"),
                  Get(entry, "nStepWidth"), Get(entry, "nStepHeight") >>, << >>)
       IN  torchModules' = Append(torchModules, maxpoolModule)
    /\ width' = FloorHalf(width)
    /\ height' = FloorHalf(height)
    /\ UNCHANGED lastConvLayerKernelSize
    /\ NextEntry

KnownLayerTypes ==
    {"convolution", "batchnormalization", "relu", "dropout", "maxpooling"}

\* no branch of the if / else-if chain matches: the callback does nothing
OtherLayerType ==
    /\ pc = "forEach"
    /\ index <= Len(Layers)
    /\ Layers[index].layerType \notin KnownLayerTypes
    /\ UNCHANGED << width, height, lastConvLayerKernelSize, torchModules >>
    /\ NextEntry

\* variant: the reshape node is fed by inputNode instead of the convStack
ReturnInputStack_ReshapeFromInput ==
    /\ pc = "forEach"
    /\ index > Len(Layers)
    /\ LET outputSize == JsMul(JsMul(lastConvLayerKernelSize, Num(width)), Num(height))
           reshape == EBTorchNode(EBTorchModule("nn.Reshape", << outputSize >>, << >>),
                                  inputNode, name \o "_reshape")
       IN  result' = Return(
               [outputNode |-> reshape,
                outputTensorSchema |->
                    generateDataTensorSchema(outputSize, name \o "_convNetOutput"),
                additionalModules |-> << >>])
    /\ pc' = "done"
    /\ UNCHANGED << schema, inputNode, outside, tensorSchema, locals, session >>

\* variant: the node names do not carry the field's variableName
ReturnInputStack_UnprefixedNames ==
    /\ pc = "forEach"
    /\ index > Len(Layers)
    /\ LET convStack == EBTorchNode(EBTorchModule("nn.Sequential", << >>, torchModules),
                                    inputNode, "convStack")
           outputSize == JsMul(JsMul(lastConvLayerKernelSize, Num(width)), Num(height))
           reshape == EBTorchNode(EBTorchModule("nn.Reshape", << outputSize >>, << >>),
                                  convStack, "reshape")
       IN  result' = Return(
               [outputNode |-> reshape,
                outputTensorSchema |->
                    generateDataTensorSchema(outputSize, name \o "_convNetOutput"),
                additionalModules |-> << >>])
    /\ pc' = "done"
    /\ UNCHANGED << schema, inputNode, outside, tensorSchema, locals, session >>

\* variant: the output schema is sized without the channel count and the
\* modules are handed back as additional modules
ReturnInputStack_SchemaWithoutChannels ==
    /\ pc = "forEach"
    /\ index > Len(Layers)
    /\ LET convStack == EBTorchNode(EBTorchModule("nn.Sequential", << >>, torchModules),
                                    inputNode, name \o "_convStack")
           outputSize == JsMul(JsMul(lastConvLayerKernelSize, Num(width)), Num(height))
           reshape == EBTorchNode(EBTorchModule("nn.Reshape", << outputSize >>, << >>),
                                  convStack, name \o "_reshape")
       IN  result' = Return(
               [outputNode |-> reshape,
                outputTensorSchema |->
                    generateDataTensorSchema(Num(width * height), name \o "_convNetOutput"),
                additionalModules |-> torchModules])
    /\ pc' = "done"
    /\ UNCHANGED << schema, inputNode, outside, tensorSchema, locals, session >>

\* after the forEach: the two nodes and the returned object
ReturnInputStack ==
    /\ pc = "forEach"
    /\ index > Len(Layers)
    /\ LET convStack == EBTorchNode(EBTorchModule("nn.Sequential", << >>, torchModules),
                                    inputNode, name \o "_convStack")
           outputSize == JsMul(JsMul(lastConvLayerKernelSize, Num(width)), Num(height))
           reshape == EBTorchNode(EBTorchModule("nn.Reshape", << outputSize >>, << >>),
                                  convStack, name \o "_reshape")
       IN  result' = Return(
               [outputNode |-> reshape,
                outputTensorSchema |->
                    generateDataTensorSchema(outputSize, name \o "_convNetOutput"),
                additionalModules |-> << >>])
    /\ pc' = "done"
    /\ UNCHANGED << schema, inputNode, outside, tensorSchema, locals, session >>

Next ==
    \/ CallGetTensorSchema
    \/ EnterGenerateInputStack
    \/ Convolution
    \/ BatchNormalization
    \/ ReLU
    \/ Dropout
    \/ MaxPooling
    \/ OtherLayerType
    \/ ReturnInputStack

Spec == Init /\ [][Next]_vars

\* ------------------------------ the fixed five-stage generateInputStack
\* the eight modules of one stage
StageModules(nIn, nOut) ==
    << EBTorchModule("nn.SpatialConvolution",
           << Num(nIn), Num(nOut), Num(3), Num(3), Num(1), Num(1), Num(1), Num(1) >>, << >>),
       EBTorchModule("nn.SpatialBatchNormalization", << Num(nOut), Frac(1, 1000) >>, << >>),
       EBTorchModule("nn.ReLU", << Str("true") >>, << >>),
       EBTorchModule("nn.SpatialConvolution",
           << Num(nOut), Num(nOut), Num(3), Num(3), Num(1), Num(1), Num(1), Num(1) >>, << >>),
       EBTorchModule("nn.SpatialBatchNormalization", << Num(nOut), Frac(1, 1000) >>, << >>),
       EBTorchModule("nn.ReLU", << Str("true") >>, << >>),
       EBTorchModule("nn.Dropout", << Frac(4, 10) >>, << >>),
       EBTorchModule("nn.SpatialMaxPooling", << Num(2), Num(2), Num(2), Num(2) >>, << >>) >>

\* reading schema.coniguration.interpretation: the property read on an
\* undefined value throws a TypeError
generateInputStackFixed(s, input) ==
    IF "coniguration" \notin DOMAIN s
    THEN Throw([name |-> "TypeError",
                message |-> "Cannot read property 'interpretation' of undefined"])
    ELSE
    LET n == s.variableName
        size == getImageSizeForSchema(s)
        layer1 == EBTorchNode(EBTorchModule("nn.Sequential", << >>, StageModules(3, 32)),
                              input, n \o "_convNetLayer1")
        width1 == FloorHalf(size.width)
        height1 == FloorHalf(size.height)
        layer2 == EBTorchNode(EBTorchModule("nn.Sequential", << >>, StageModules(32, 64)),
                              layer1, n \o "_convNetLayer2")
        width2 == FloorHalf(width1)
        height2 == FloorHalf(height1)
        layer3 == EBTorchNode(EBTorchModule("nn.Sequential", << >>, StageModules(64, 128)),
                              layer2, n \o "_convNetLayer3")
        width3 == FloorHalf(width2)
        height3 == FloorHalf(height2)
        layer4 == EBTorchNode(EBTorchModule("nn.Sequential", << >>, StageModules(128, 256)),
                              layer3, n \o "_convNetLayer4")
        width4 == FloorHalf(width3)
        height4 == FloorHalf(height3)
        layer5 == EBTorchNode(EBTorchModule("nn.Sequential", << >>, StageModules(256, 512)),
                              layer4, n \o "_convNetLayer5")
        width5 == FloorHalf(width4)
        height5 == FloorHalf(height4)
        outputSize == Num(512 * width5 * height5)
        reshape == EBTorchNode(EBTorchModule("nn.Reshape", << outputSize >>, << >>),
                               layer5, n \o "_reshape")
    IN  Return([outputNode |-> reshape,
                outputTensorSchema |->
                    generateDataTensorSchema(outputSize, n \o "_convNetOutput"),
                additionalModules |-> << >>])

\* ------------------------------------------------ the component's methods
\* schemas as the pipeline passes them, and one object that carries the
\* property under the name the fixed generateInputStack reads
SchemasMethods ==
    { Schema(f[1], f[2], f[3], stack) :
        f \in { <<"photo", TRUE, "image">>, <<"scan", TRUE, "image">>,
                 <<"album", FALSE, "image">>, <<"caption", TRUE, "string">> },
        stack \in StacksOver(PaletteEntries, MaxMethodLayers) }
    \cup { Schema("legacy", TRUE, "image", << >>)
              @@ ("coniguration" :> [interpretation |-> [layers |-> << >>]]) }

InitMethods ==
    /\ schema \in SchemasMethods
    /\ inputNode \in InputNodes
    /\ pc = "start"
    /\ tensorSchema = Pending
    /\ name = ""
    /\ width = 0
    /\ height = 0
    /\ lastConvLayerKernelSize = Null
    /\ torchModules = << >>
    /\ index = 0
    /\ result = Pending
    /\ call = NoCall
    /\ previous = Pending
    /\ calls = 1
    /\ checkedValue = Undefined
    /\ data = << >>
    /\ console = Undefined
    /\ widths = << >>
    /\ heights = << >>
    /\ promises = << >>

Called(fn, nameArgument, completion) ==
    /\ pc = "start"
    /\ call' = [fn |-> fn, name |-> nameArgument]
    /\ result' = completion
    /\ pc' = "called"
    /\ UNCHANGED << schema, inputNode, outside, tensorSchema, locals, previous, calls >>

CallGenerateInputStackFixed ==
    Called("generateInputStack", "", generateInputStackFixed(schema, inputNode))

\* assert(value) with a falsy value
AssertionError == [name |-> "AssertionError"]

FunctionNames == { "makeTensor", "prepareBatch" }

generateTensorInputCode(s, fname) ==
    IF ~s.isField THEN Throw(AssertionError)
    ELSE IF s.metadata.mainInterpretation # "image" THEN Throw(AssertionError)
    ELSE Return("local " \o fname \o " = function (input)\n"
             \o "    local decoded = mime.unb64(input)\n"
             \o "    local bytes = torch.ByteStorage()\n"
             \o "    bytes:string(decoded)\n"
             \o "    local tensor = torch.ByteTensor(bytes)\n"
             \o "    return image.decompress(tensor, 3)\n"
             \o "end\n")

generateTensorOutputCode ==
    Throw([name |-> "Error",
           message |-> "Cant create output code for the image neural network component"])

\* variant: the interpretation is not asserted
generatePrepareBatchCode_NoInterpretationAssert(s, fname) ==
    IF ~s.isField THEN Throw(AssertionError)
    ELSE Return("local " \o fname \o " = function (input)\n"
             \o "    local height, width = input[1]:size(2), input[1]:size(3)\n"
             \o "    local batch = torch.zeros(#samples,3,height ,width )\n"
             \o "    for k,v in pairs(input) do\n"
             \o "        batch:narrow(1, k , 1):copy(input[k]:view(1, 3, height, width))\n"
             \o "    end\n"
             \o "    return batch\n"
             \o "end\n")

generatePrepareBatchCode(s, fname) ==
    IF ~s.isField THEN Throw(AssertionError)
    ELSE IF s.metadata.mainInterpretation # "image" THEN Throw(AssertionError)
    ELSE Return("local " \o fname \o " = function (input)\n"
             \o "    local height, width = input[1]:size(2), input[1]:size(3)\n"
             \o "    local batch = torch.zeros(#samples,3,height ,width )\n"
             \o "    for k,v in pairs(input) do\n"
             \o "        batch:narrow(1, k , 1):copy(input[k]:view(1, 3, height, width))\n"
             \o "    end\n"
             \o "    return batch\n"
             \o "end\n")

generateUnwindBatchCode(s, fname) ==
    IF ~s.isField THEN Throw(AssertionError)
    ELSE IF s.metadata.mainInterpretation # "image" THEN Throw(AssertionError)
    ELSE Return("local " \o fname \o " = function (input)\n"
             \o "    local samples = {}\n"
             \o "    for k,v in pairs(input) do\n"
             \o "        table.insert(samples, input[k]:narrow(2, k, 1))\n"
             \o "    end\n"
             \o "    return samples\n"
             \o "end\n")

\* variant: the input node is handed back as the output stack
generateOutputStack_ReturnsInput(input) == Return(input)

generateOutputStack(input) ==
    Throw([name |-> "Error",
           message |-> "Cant create output stack for the image neural network component"])

CallGenerateTensorInputCode ==
    \E fname \in FunctionNames :
        Called("generateTensorInputCode", fname, generateTensorInputCode(schema, fname))

CallGenerateTensorOutputCode ==
    Called("generateTensorOutputCode", "", generateTensorOutputCode)

CallGeneratePrepareBatchCode ==
    \E fname \in FunctionNames :
        Called("generatePrepareBatchCode", fname, generatePrepareBatchCode(schema, fname))

CallGenerateUnwindBatchCode ==
    \E fname \in FunctionNames :
        Called("generateUnwindBatchCode", fname, generateUnwindBatchCode(schema, fname))

CallGenerateOutputStack ==
    Called("generateOutputStack", "", generateOutputStack(inputNode))

NextMethods ==
    \/ CallGenerateInputStackFixed
    \/ CallGenerateTensorInputCode
    \/ CallGenerateTensorOutputCode
    \/ CallGeneratePrepareBatchCode
    \/ CallGenerateUnwindBatchCode
    \/ CallGenerateOutputStack

SpecMethods == InitMethods /\ [][NextMethods]_vars

\* ------------------------------------------- the same field, called again
SchemasTwice ==
    { Schema(f[1], f[2], f[3], stack) :
        f \in { <<"photo", TRUE, "image">>, <<"scan", TRUE, "image">>,
                 <<"album", FALSE, "image">>, <<"caption", TRUE, "string">> },
        stack \in StacksOver(Entries, MaxTwiceLayers) }

InitTwice ==
    /\ schema \in SchemasTwice
    /\ inputNode \in InputNodes
    /\ pc = "start"
    /\ tensorSchema = Pending
    /\ name = ""
    /\ width = 0
    /\ height = 0
    /\ lastConvLayerKernelSize = Null
    /\ torchModules = << >>
    /\ index = 0
    /\ result = Pending
    /\ call = NoCall
    /\ previous = Pending
    /\ calls = 1
    /\ checkedValue = Undefined
    /\ data = << >>
    /\ console = Undefined
    /\ widths = << >>
    /\ heights = << >>
    /\ promises = << >>

\* the caller keeps what it got and calls both methods again, for the same
\* field or for the field renamed "scan"; the locals of the finished call
\* are dead but stay in the state
NextCall ==
    /\ pc = "done"
    /\ calls < MaxCalls
    /\ previous' = [schema |-> schema, inputNode |-> inputNode,
                    tensorSchema |-> tensorSchema, result |-> result]
    /\ \E n \in { schema.variableName, "scan" } :
          schema' = [schema EXCEPT !.variableName = n]
    /\ calls' = calls + 1
    /\ pc' = "start"
    /\ tensorSchema' = Pending
    /\ result' = Pending
    /\ UNCHANGED << inputNode, outside, locals, call >>

NextTwice == Next \/ NextCall

SpecTwice == InitTwice /\ [][NextTwice]_vars

\* ================================================================ claims
RECURSIVE ProductOfSizes(_)
ProductOfSizes(dims) ==
    IF dims = << >> THEN 1 ELSE Head(dims).size * ProductOfSizes(Tail(dims))

\* C1: the descriptor returned by getTensorSchema has
\* tensorMap[variableName].size = width * height * channels, and that size
\* is the product of the sizes of all entries of tensorDimensions.
C1_SizeIsProductOfDimensions ==
    tensorSchema.kind = "return" =>
        LET ts == tensorSchema.value
            size == getImageSizeForSchema(schema)
            channels == getImageChannelsForSchema(schema)
        IN  /\ ts.tensorMap[schema.variableName].size
                  = size.width * size.height * channels
            /\ ts.tensorMap[schema.variableName].size
                  = ProductOfSizes(ts.tensorDimensions)

\* getTensorSchema has returned for a field with a non-empty layer stack
C1_Witness ==
    /\ tensorSchema.kind = "return"
    /\ Layers # << >>
    /\ tensorSchema.value.tensorMap[schema.variableName].size = 30000

\* C2: getTensorSchema returns exactly three dimensions labelled "width",
\* "height", "channels" in that order, and a tensorMap with exactly one
\* entry, keyed by the schema's variableName, whose start is 1.
C2_DimensionOrderAndSingleEntry ==
    tensorSchema.kind = "return" =>
        LET ts == tensorSchema.value
        IN  /\ Len(ts.tensorDimensions) = 3
            /\ ts.tensorDimensions[1].label = "width"
            /\ ts.tensorDimensions[2].label = "height"
            /\ ts.tensorDimensions[3].label = "channels"
            /\ DOMAIN ts.tensorMap = { schema.variableName }
            /\ ts.tensorMap[schema.variableName].start = 1
            /\ ts.variableName = schema.variableName

\* getTensorSchema has returned for the field "scan"
C2_Witness ==
    /\ tensorSchema.kind = "return"
    /\ schema.variableName = "scan"
    /\ DOMAIN tensorSchema.value.tensorMap = { "scan" }

\* --------------------------------- the same field under a comparable stack
\* the palette, with a second convolution (strided, unpadded, 64 channels),
\* a convolution without its numeric fields, a second pooling and a
\* descriptor of an unknown kind
PairEntries ==
    PaletteEntries \cup
    { ConvolutionEntry(32, 64, 3, 2, 0),
      [layerType |-> "convolution"],
      MaxPoolingEntry(3, 1),
      [layerType |-> "normalization_v2"] }

PairStacks == StacksOver(PairEntries, MaxPairLayers)

Positions(stack, layerType) ==
    { i \in DOMAIN stack : stack[i].layerType = layerType }

\* nOutputPlane of the last convolution of the stack, null without one
LastOutputChannels(stack) ==
    IF Positions(stack, "convolution") = {}
    THEN Null
    ELSE LET last == CHOOSE i \in Positions(stack, "convolution") :
                         \A j \in Positions(stack, "convolution") : j <= i
         IN  Get(stack[last], "nOutputPlane")

Poolings(stack) == Cardinality(Positions(stack, "maxpooling"))

\* the stacks that agree with `stack` on the channels of the last
\* convolution and on the number of poolings
Agreeing(stack) ==
    { other \in PairStacks :
        /\ LastOutputChannels(other) = LastOutputChannels(stack)
        /\ Poolings(other) = Poolings(stack) }

\* `stack` with one more pooling, at any position
WithOneMorePooling(stack) ==
    { SubSeq(stack, 1, i) \o << pool >> \o SubSeq(stack, i + 1, Len(stack)) :
        i \in 0..Len(stack),
        pool \in { e \in PairEntries : e.layerType = "maxpooling" } }

InitPair ==
    /\ schema \in { Schema("photo", TRUE, "image", stack) : stack \in PairStacks }
    /\ inputNode \in InputNodes
    /\ pc = "start"
    /\ tensorSchema = Pending
    /\ name = ""
    /\ width = 0
    /\ height = 0
    /\ lastConvLayerKernelSize = Null
    /\ torchModules = << >>
    /\ index = 0
    /\ result = Pending
    /\ call = NoCall
    /\ previous = Pending
    /\ calls = 1
    /\ checkedValue = Undefined
    /\ data = << >>
    /\ console = Undefined
    /\ widths = << >>
    /\ heights = << >>
    /\ promises = << >>

\* the caller keeps what it got from the first build, edits the field's
\* layer stack into a comparable one and calls both methods again
NextStack ==
    /\ pc = "done"
    /\ previous = Pending
    /\ previous' = [schema |-> schema, inputNode |-> inputNode,
                    tensorSchema |-> tensorSchema, result |-> result]
    /\ \E other \in Agreeing(Layers) \cup WithOneMorePooling(Layers) :
          schema' = [schema EXCEPT !.configuration.interpretation.layers = other]
    /\ calls' = calls + 1
    /\ pc' = "start"
    /\ tensorSchema' = Pending
    /\ result' = Pending
    /\ UNCHANGED << inputNode, outside, locals, call >>

NextPair == Next \/ NextStack

SpecPair == InitPair /\ [][NextPair]_vars

\* ------------------------------------------ the interpretation: checkValue
\* the bytes that buffers are made of: 'B', 'M', 'Z' and 0
Bytes == { 0, 66, 77, 90 }

Buffer(bytes) == [kind |-> "Buffer", bytes |-> bytes]

Buffers == { Buffer(b) : b \in UNION { [1..k -> Bytes] : k \in 0..MaxBytes } }

\* "can be practically anything"
Values ==
    { Undefined, Null, Num(66), Bool(TRUE), Str("BM"), Str("image/bmp") }
        \cup Buffers

\* file-type: the type whose magic number the buffer starts with, null when
\* the buffer is shorter than two bytes or no magic number matches
fileType(input) ==
    IF Len(input.bytes) < 2 THEN Null
    ELSE IF SubSeq(input.bytes, 1, 2) = << 66, 77 >>
         THEN [ext |-> "bmp", mime |-> "image/bmp"]
    ELSE IF SubSeq(input.bytes, 1, 2) = << 77, 90 >>
         THEN [ext |-> "exe", mime |-> "application/x-msdownload"]
    ELSE Null

\* String.prototype.indexOf(search) === 0
StartsWith(text, search) ==
    /\ Len(text) >= Len(search)
    /\ SubSeq(text, 1, Len(search)) = search

\* Promise.resolve(x)
Resolved(x) == [promise |-> "resolved", with |-> x]

\* type.mime of a null type is a TypeError, thrown before any promise exists
checkValue(v) ==
    IF v.kind = "Buffer"
    THEN LET type == fileType(v)
         IN  IF type = Null
             THEN Throw([name |-> "TypeError",
                         message |-> "Cannot read property 'mime' of null"])
             ELSE IF StartsWith(type.mime, "image")
                  THEN Return(Resolved(TRUE))
                  ELSE Return(Resolved(FALSE))
    ELSE Return(Resolved(FALSE))

InitCheckValue ==
    /\ schema = Schema("photo", TRUE, "image", << >>)
    /\ inputNode \in InputNodes
    /\ pc = "start"
    /\ tensorSchema = Pending
    /\ name = ""
    /\ width = 0
    /\ height = 0
    /\ lastConvLayerKernelSize = Null
    /\ torchModules = << >>
    /\ index = 0
    /\ result = Pending
    /\ call = NoCall
    /\ previous = Pending
    /\ calls = 1
    /\ checkedValue \in Values
    /\ data = << >>
    /\ console = Undefined
    /\ widths = << >>
    /\ heights = << >>
    /\ promises = << >>

CallCheckValue ==
    Called("checkValue", "", checkValue(checkedValue))

NextCheckValue == CallCheckValue

SpecCheckValue == InitCheckValue /\ [][NextCheckValue]_vars

\* --------------------------------------------------- the layer-stack editor
\* EBImageNetworkLayerTypes.layerTypes: the palette, with ids and titles
layerTypes ==
    << [id |-> 1, title |-> "SpatialConvolution"] @@ ConvolutionEntry(3, 32, 3, 1, 1),
       [id |-> 2, title |-> "SpatialBatchNormalization",
        layerType |-> "batchnormalization", nInputFeatures |-> Num(32)],
       [id |-> 3, title |-> "ReLU", layerType |-> "relu", nState |-> Bool(TRUE)],
       [id |-> 4, title |-> "SpatialMaxPooling"] @@ MaxPoolingEntry(2, 2),
       [id |-> 5, title |-> "Dropout", layerType |-> "dropout", nRatio |-> Frac(4, 10)] >>

\* the list the controller starts with
InitialData ==
    << [id |-> 1, title |-> "Convolution", layerType |-> "convolution"],
       [id |-> 2, title |-> "MAxPooling", layerType |-> "maxpooling"],
       [id |-> 3, title |-> "ReLu", layerType |-> "relu"],
       [id |-> 4, title |-> "BatchNormalization", layerType |-> "batchnormalization"],
       [id |-> 5, title |-> "Dropout", layerType |-> "dropout"] >>

InitEditor ==
    /\ schema = Schema("photo", TRUE, "image", << >>)
    /\ inputNode \in InputNodes
    /\ pc = "editing"
    /\ tensorSchema = Pending
    /\ name = ""
    /\ width = 0
    /\ height = 0
    /\ lastConvLayerKernelSize = Null
    /\ torchModules = << >>
    /\ index = 0
    /\ result = Pending
    /\ call = NoCall
    /\ previous = Pending
    /\ calls = 1
    /\ checkedValue = Undefined
    /\ data = InitialData
    /\ console = Undefined
    /\ widths = << >>
    /\ heights = << >>
    /\ promises = << >>

\* scope.remove() of the tree node at position i of the list
Remove(list, i) == SubSeq(list, 1, i - 1) \o SubSeq(list, i + 1, Len(list))

\* variant: the node is removed whatever the length of the list
removeConvNetLayer_Unguarded(i) ==
    /\ pc = "editing"
    /\ i \in 1..Len(data)
    /\ console' = Num(Len(data))
    /\ data' = Remove(data, i)
    /\ call' = [fn |-> "removeConvNetLayer", name |-> ""]
    /\ UNCHANGED << component, pc, result, previous, calls,
                    checkedValue, widths, heights, promises >>

removeConvNetLayer(i) ==
    /\ pc = "editing"
    /\ i \in 1..Len(data)
    /\ console' = Num(Len(data))
    /\ IF Len(data) > 1
       THEN data' = Remove(data, i)
       ELSE data' = data
    /\ call' = [fn |-> "removeConvNetLayer", name |-> ""]
    /\ UNCHANGED << component, pc, result, previous, calls,
                    checkedValue, widths, heights, promises >>

\* the node whose button was pressed: one of the palette or one of the list
newSubItem(nodeData) ==
    /\ pc = "editing"
    /\ Len(data) < MaxData
    /\ data' = Append(data, [id |-> nodeData.id,
                             title |-> nodeData.title,
                             layerType |-> nodeData.layerType])
    /\ call' = [fn |-> "newSubItem", name |-> ""]
    /\ UNCHANGED << component, pc, result, previous, calls,
                    checkedValue, console, widths, heights, promises >>

RemoveConvNetLayer == \E i \in 1..MaxData : removeConvNetLayer(i)

NewSubItem ==
    \E nodeData \in { layerTypes[k] : k \in DOMAIN layerTypes }
                        \cup { data[k] : k \in DOMAIN data } :
        newSubItem(nodeData)

NextEditor ==
    \/ RemoveConvNetLayer
    \/ NewSubItem

SpecEditor == InitEditor /\ [][NextEditor]_vars

\* ---------------------------------------------------- the field accumulator
Image(id, w, h) == [kind |-> "Buffer", id |-> id, width |-> w, height |-> h]

\* two images of distinct widths and heights, and one of equal sides
Images == { Image("a", 640, 480), Image("b", 480, 640), Image("c", 100, 100) }

\* a Buffer that sharp cannot read
NotAnImage == [kind |-> "Buffer", id |-> "text"]

AccumulatedValues == Images \cup { NotAnImage }

\* sharp(value).metadata(): the promise is fulfilled with the image's
\* metadata, and rejected for input that is not an image
metadata(v) ==
    IF v \in Images
    THEN [settles |-> "fulfilled", with |-> [width |-> Num(v.width), height |-> Num(v.height)]]
    ELSE [settles |-> "rejected", with |-> Undefined]

InitAccumulator ==
    /\ schema = Schema("photo", TRUE, "image", << >>)
    /\ inputNode \in InputNodes
    /\ pc = "accumulating"
    /\ tensorSchema = Pending
    /\ name = ""
    /\ width = 0
    /\ height = 0
    /\ lastConvLayerKernelSize = Null
    /\ torchModules = << >>
    /\ index = 0
    /\ result = Pending
    /\ call = NoCall
    /\ previous = Pending
    /\ calls = 1
    /\ checkedValue = Undefined
    /\ data = << >>
    /\ console = Undefined
    /\ widths = << >>
    /\ heights = << >>
    /\ promises = << >>

\* the synchronous part of the call: the promise is created and returned
accumulateValue(v) ==
    /\ pc = "accumulating"
    /\ Len(promises) < MaxValues
    /\ promises' = Append(promises, [value |-> v, state |-> "pending"])
    /\ UNCHANGED << component, pc, result, session,
                    checkedValue, data, console, widths, heights >>

\* variant: the image is kept in a member that the next call overwrites, and
\* the height is read from it
OnMetadata_HeightOfLastCall(k) ==
    /\ pc = "accumulating"
    /\ k \in DOMAIN promises
    /\ promises[k].state = "pending"
    /\ metadata(promises[k].value).settles = "fulfilled"
    /\ widths' = Append(widths, metadata(promises[k].value).with.width)
    /\ heights' = Append(heights,
           Get(metadata(promises[Len(promises)].value).with, "height"))
    /\ promises' = [promises EXCEPT ![k].state = "fulfilled"]
    /\ UNCHANGED << component, pc, result, session, checkedValue, data, console >>

\* the callback of then(), run to completion when the k-th promise is
\* fulfilled: both pushes
OnMetadata(k) ==
    /\ pc = "accumulating"
    /\ k \in DOMAIN promises
    /\ promises[k].state = "pending"
    /\ metadata(promises[k].value).settles = "fulfilled"
    /\ widths' = Append(widths, metadata(promises[k].value).with.width)
    /\ heights' = Append(heights, metadata(promises[k].value).with.height)
    /\ promises' = [promises EXCEPT ![k].state = "fulfilled"]
    /\ UNCHANGED << component, pc, result, session, checkedValue, data, console >>

\* the k-th promise is rejected: the callback never runs
OnMetadataRejected(k) ==
    /\ pc = "accumulating"
    /\ k \in DOMAIN promises
    /\ promises[k].state = "pending"
    /\ metadata(promises[k].value).settles = "rejected"
    /\ promises' = [promises EXCEPT ![k].state = "rejected"]
    /\ UNCHANGED << component, pc, result, session,
                    checkedValue, data, console, widths, heights >>

AccumulateValue == \E v \in AccumulatedValues : accumulateValue(v)

MetadataFulfilled == \E k \in 1..MaxValues : OnMetadata(k)

MetadataRejected == \E k \in 1..MaxValues : OnMetadataRejected(k)

NextAccumulator ==
    \/ AccumulateValue
    \/ MetadataFulfilled
    \/ MetadataRejected

SpecAccumulator == InitAccumulator /\ [][NextAccumulator]_vars

\* ------------------------------------------------ vocabulary of the claims
\* the descriptors the forEach has already visited
Visited ==
    IF pc \in {"forEach", "done"} THEN SubSeq(Layers, 1, index - 1) ELSE << >>

IndicesOf(stack, layerType) ==
    { i \in DOMAIN stack : stack[i].layerType = layerType }

CountOf(stack, layerType) == Cardinality(IndicesOf(stack, layerType))

Maximum(S) == CHOOSE m \in S : \A n \in S : n <= m

RECURSIVE HalveTimes(_, _)
HalveTimes(n, k) == IF k = 0 THEN n ELSE HalveTimes(n \div 2, k - 1)

\* nOutputPlane of the last convolution of a stack, or the given start value
ChannelsAfter(stack, start) ==
    IF IndicesOf(stack, "convolution") = {}
    THEN start
    ELSE Get(stack[Maximum(IndicesOf(stack, "convolution"))], "nOutputPlane")

WidthAfter(stack) ==
    HalveTimes(getImageSizeForSchema(schema).width, CountOf(stack, "maxpooling"))

HeightAfter(stack) ==
    HalveTimes(getImageSizeForSchema(schema).height, CountOf(stack, "maxpooling"))

\* channels * width * height after a stack, for a given initial channel value
FlattenedLength(stack, start) ==
    JsMul(JsMul(ChannelsAfter(stack, start), Num(WidthAfter(stack))),
          Num(HeightAfter(stack)))

AllKnown(stack) == \A i \in DOMAIN stack : stack[i].layerType \in KnownLayerTypes

Returned == pc = "done" /\ result.kind = "return"

OutputNode == result.value.outputNode

\* the size the Reshape module declares
DeclaredSize == OutputNode.module.params[1]

\* C3: for every stack of the five known kinds the Reshape node declares
\* channels * width * height, the running triple starting at the field's
\* (100, 100, 3): channels is the last Convolution's outputChannels, or the
\* field's own 3 channels when the stack has no Convolution.
C3_ReshapeSizeFromFieldChannels ==
    (pc = "done" /\ Len(Layers) >= 1 /\ AllKnown(Layers)) =>
        /\ result.kind = "return"
        /\ DeclaredSize
             = FlattenedLength(Layers, Num(getImageChannelsForSchema(schema)))

\* C4: every MaxPooling descriptor floor-halves the running width and
\* height whatever its kernel and stride are: after k MaxPooling layers the
\* running width (height) is the initial width (height) floor-halved k times.
C4_PoolingHalvesUnconditionally ==
    pc \in {"forEach", "done"} =>
        /\ width = WidthAfter(Visited)
        /\ height = HeightAfter(Visited)

\* three poolings, one of them with kernel 3 and stride 1, took 100 to 12
C4_Witness ==
    /\ pc = "done"
    /\ CountOf(Layers, "maxpooling") = 3
    /\ \E i \in DOMAIN Layers : Layers[i] = MaxPoolingEntry(3, 1)
    /\ width = 12
    /\ height = 12

\* C5: a Convolution descriptor leaves the running width and height
\* unchanged for every stride and padding and sets the running channel
\* count to its nOutputPlane, so the Reshape size uses the nOutputPlane of
\* the last Convolution of the stack.
C5_ConvolutionKeepsSizeSetsChannels ==
    [][ /\ AtEntry("convolution") =>
              /\ width' = width
              /\ height' = height
              /\ lastConvLayerKernelSize' = Get(Layers[index], "nOutputPlane")
        /\ (pc' = "done" /\ IndicesOf(Layers, "convolution") # {}) =>
              result'.value.outputNode.module.params[1]
                = JsMul(JsMul(ChannelsAfter(Layers, Null), Num(width')), Num(height'))
      ]_vars

\* a stack whose last convolution has stride 2 and no padding was built
C5_Witness ==
    /\ Returned
    /\ Len(Layers) >= 2
    /\ IndicesOf(Layers, "convolution") # {}
    /\ Layers[Maximum(IndicesOf(Layers, "convolution"))] = ConvolutionEntry(32, 64, 3, 2, 0)
    /\ width = 50
    /\ DeclaredSize = Num(64 * 50 * 50)

ShapelessTypes == {"batchnormalization", "relu", "dropout"}

ModuleNameOf(layerType) ==
    CASE layerType = "convolution" -> "nn.SpatialConvolution"
      [] layerType = "batchnormalization" -> "nn.SpatialBatchNormalization"
      [] layerType = "relu" -> "nn.ReLU"
      [] layerType = "dropout" -> "nn.Dropout"
      [] layerType = "maxpooling" -> "nn.SpatialMaxPooling"

IsShapeChanging(entry) == entry.layerType \notin ShapelessTypes

\* C6: BatchNormalization, ReLU and Dropout descriptors each emit one
\* corresponding module and leave the running width, height and channel
\* count unchanged; the flattened length is that of the stack without them.
C6_ShapelessLayersKeepTheShape ==
    [][ /\ (pc = "forEach" /\ index <= Len(Layers)
              /\ Layers[index].layerType \in ShapelessTypes) =>
              /\ Len(torchModules') = Len(torchModules) + 1
              /\ SubSeq(torchModules', 1, Len(torchModules)) = torchModules
              /\ torchModules'[Len(torchModules')].module
                   = ModuleNameOf(Layers[index].layerType)
              /\ width' = width
              /\ height' = height
              /\ lastConvLayerKernelSize' = lastConvLayerKernelSize
        /\ pc' = "done" =>
              result'.value.outputNode.module.params[1]
                = FlattenedLength(SelectSeq(Layers, IsShapeChanging), Null)
      ]_vars

\* a convolution followed by shapeless layers was built to a non-zero length
C6_Witness ==
    /\ Returned
    /\ Len(Layers) = 3
    /\ Layers[1].layerType = "convolution"
    /\ Layers[2].layerType = "batchnormalization"
    /\ Layers[3].layerType = "dropout"
    /\ Len(torchModules) = 3
    /\ DeclaredSize = Num(32 * 100 * 100)

UnknownIndices(stack) ==
    { i \in DOMAIN stack : stack[i].layerType \notin KnownLayerTypes }

\* C7: a descriptor whose tag is none of the five known kinds makes
\* generateInputStack fail with an UnsupportedLayerKind fault naming the
\* descriptor's index; no node and no partial graph is returned.
C7_UnknownKindRejected ==
    (pc = "done" /\ UnknownIndices(Layers) # {}) =>
        /\ result.kind = "throw"
        /\ result.error.name = "UnsupportedLayerKind"
        /\ result.error.index \in UnknownIndices(Layers)

IsPositive(v) == v.kind = "number" /\ v.val > 0

\* val / den lies strictly between 0 and 1
IsRatio(v) == v.kind = "number" /\ 0 < v.val /\ v.val < v.den

Malformed(entry) ==
    CASE entry.layerType = "convolution" ->
            \E f \in {"nInputPlane", "nOutputPlane", "kernelWidth", "kernelHeight",
                      "stepWidth", "stepHeight"} : ~IsPositive(Get(entry, f))
      [] entry.layerType = "maxpooling" ->
            \E f \in {"nKernelWidth", "nKernelHeight", "nStepWidth", "nStepHeight"} :
                ~IsPositive(Get(entry, f))
      [] entry.layerType = "dropout" -> ~IsRatio(Get(entry, "nRatio"))
      [] entry.layerType = "batchnormalization" ->
            ~IsPositive(Get(entry, "nInputFeatures"))
      [] OTHER -> FALSE

MalformedIndices(stack) == { i \in DOMAIN stack : Malformed(stack[i]) }

\* C8: a malformed descriptor of a known kind (a missing numeric field, a
\* non-positive kernel or stride, a Dropout ratio outside (0,1)) makes
\* generateInputStack fail with an InvalidLayerConfiguration fault before
\* any node is emitted; nothing is returned.
C8_MalformedDescriptorRejected ==
    (pc \in {"forEach", "done"} /\ AllKnown(Layers) /\ MalformedIndices(Layers) # {}) =>
        /\ torchModules = << >>
        /\ pc = "done" =>
              /\ result.kind = "throw"
              /\ result.error.name = "InvalidLayerConfiguration"

RECURSIVE ChainLength(_)
\* number of nodes between a node and the graph input
ChainLength(node) ==
    IF node = inputNode THEN 0 ELSE 1 + ChainLength(node.input)

RECURSIVE NodeAt(_, _)
\* the node k steps upstream of a node
NodeAt(node, k) == IF k = 0 THEN node ELSE NodeAt(node.input, k - 1)

ModuleNames(modules) == [i \in DOMAIN modules |-> modules[i].module]

KnownLayers(stack) ==
    LET IsKnown(entry) == entry.layerType \in KnownLayerTypes
    IN  SelectSeq(stack, IsKnown)

C10_ReturnValue ==
    pc = "done" =>
        /\ result.kind = "return"
        /\ DOMAIN result.value = {"outputNode", "outputTensorSchema", "additionalModules"}
        /\ OutputNode.module.module = "nn.Reshape"
        /\ Len(OutputNode.module.params) = 1
        /\ Len(result.value.outputTensorSchema.tensorDimensions) = 1
        /\ result.value.outputTensorSchema.tensorDimensions[1].size = DeclaredSize
        /\ result.value.additionalModules = << >>

\* a stack with a convolution and a pooling returned a 32 * 50 * 50 vector
C10_Witness ==
    /\ Returned
    /\ CountOf(Layers, "maxpooling") = 1
    /\ DeclaredSize = Num(32 * 50 * 50)
    /\ result.value.outputTensorSchema.tensorDimensions[1].size = Num(80000)

\* C11: two calls of generateInputStack with identical arguments (schema,
\* layer stack, inputNode) return graphs with identical node names,
\* operation tags and parameters and the same flattened length; two calls
\* of getTensorSchema on the same schema return the same descriptor.
C11_RepeatedCallsAgree ==
    (calls >= 2 /\ previous.schema = schema /\ previous.inputNode = inputNode) =>
        /\ tensorSchema.kind = "return" => tensorSchema = previous.tensorSchema
        /\ pc = "done" => result = previous.result

\* a two-layer stack was built twice for the same field
C11_Witness ==
    /\ calls = 2
    /\ previous.schema = schema
    /\ Returned
    /\ Len(Layers) = 2
    /\ Len(OutputNode.input.module.children) = 2
    /\ result = previous.result

RECURSIVE ChainNames(_)
\* the names of the nodes between a node and the graph input
ChainNames(node) ==
    IF node = inputNode THEN {} ELSE { node.name } \cup ChainNames(node.input)

\* C12: the node names of one generateInputStack call are pairwise
\* distinct, each is derived only from variableName and the node's position
\* in the chain, and the builds of two fields with distinct variableName
\* values produce disjoint sets of node names.
C12_NodeNamesUnique ==
    Returned =>
        /\ Cardinality(ChainNames(OutputNode)) = ChainLength(OutputNode)
        /\ NodeAt(OutputNode, 1).name = schema.variableName \o "_convStack"
        /\ NodeAt(OutputNode, 0).name = schema.variableName \o "_reshape"
        /\ (calls >= 2 /\ previous.schema.variableName # schema.variableName) =>
              ChainNames(OutputNode)
                  \cap ChainNames(previous.result.value.outputNode) = {}

\* the field "photo" and then the field "scan" were built
C12_Witness ==
    /\ Returned
    /\ calls = 2
    /\ previous.schema.variableName = "photo"
    /\ schema.variableName = "scan"
    /\ ChainNames(previous.result.value.outputNode) = { "photo_convStack", "photo_reshape" }
    /\ ChainNames(OutputNode) = { "scan_convStack", "scan_reshape" }

\* the descriptor fields a module of each kind takes, in constructor order
ParamFields(layerType) ==
    CASE layerType = "convolution" ->
            << "nInputPlane", "nOutputPlane", "kernelWidth", "kernelHeight",
               "stepWidth", "stepHeight", "paddingWidth", "paddingHeight" >>
      [] layerType = "batchnormalization" -> << "nInputFeatures" >>
      [] layerType = "relu" -> << "nState" >>
      [] layerType = "dropout" -> << "nRatio" >>
      [] layerType = "maxpooling" ->
            << "nKernelWidth", "nKernelHeight", "nStepWidth", "nStepHeight" >>

ModuleFor(entry) ==
    EBTorchModule(ModuleNameOf(entry.layerType),
                  [k \in DOMAIN ParamFields(entry.layerType) |->
                      Get(entry, ParamFields(entry.layerType)[k])],
                  << >>)

\* C13: the emitted modules are, in insertion order, one module per
\* descriptor of the layer stack, each with the descriptor's own fields as
\* parameters, unchanged and in the fixed order of its kind.
C13_OneModulePerDescriptorInOrder ==
    pc \in {"forEach", "done"} =>
        /\ Len(torchModules) = Len(Visited)
        /\ \A i \in DOMAIN Visited : torchModules[i] = ModuleFor(Visited[i])

\* the same statement for the descriptors of the five known kinds only
C13_KnownDescriptorsInOrder ==
    pc \in {"forEach", "done"} =>
        /\ Len(torchModules) = Len(KnownLayers(Visited))
        /\ \A i \in DOMAIN KnownLayers(Visited) :
              torchModules[i] = ModuleFor(KnownLayers(Visited)[i])

IsLeafImageField(s) == s.isField /\ s.metadata.mainInterpretation = "image"

\* C14: getTensorSchema and generateInputStack fail immediately with a
\* precondition fault, returning no descriptor and no graph, whenever the
\* schema is not a leaf field or its mainInterpretation is not "image".
C14_PreconditionFault ==
    ~IsLeafImageField(schema) =>
        /\ tensorSchema.kind \in {"pending", "throw"}
        /\ pc # "forEach"
        /\ pc = "done" => result.kind = "throw"

\* C15: for the 100x100x3 field and the stack [Convolution(3 to 32),
\* MaxPooling, Convolution(32 to 64), MaxPooling] the running width and
\* height after the layers are 100, 50, 50, 25, the final channel count is
\* 64 and the Reshape node and the output schema both have size 40000.
C15_ShapePropagationExample ==
    (Layers = ExampleStack /\ pc \in {"forEach", "done"}) =>
        /\ width = << 100, 100, 50, 50, 25 >>[index]
        /\ height = << 100, 100, 50, 50, 25 >>[index]
        /\ pc = "done" =>
              /\ lastConvLayerKernelSize = Num(64)
              /\ result.kind = "return"
              /\ DeclaredSize = Num(40000)
              /\ result.value.outputTensorSchema.tensorDimensions[1].size = Num(40000)
              /\ result.value.outputTensorSchema.tensorMap[
                     schema.variableName \o "_convNetOutput"].size = Num(40000)

\* the example stack was built for the field "photo"
C15_Witness ==
    /\ Returned
    /\ Layers = ExampleStack
    /\ schema.variableName = "photo"
    /\ width = 25
    /\ height = 25
    /\ DeclaredSize = Num(64 * 25 * 25)

\* C16: when the running width or height is 1 a MaxPooling layer takes it
\* to 0 without any fault, every later layer keeps it at 0, and the
\* flattened length the Reshape node declares is 0.
C16_ZeroDimensionPropagates ==
    [][ /\ (AtEntry("maxpooling") /\ width = 1) => (width' = 0 /\ pc' = "forEach")
        /\ (AtEntry("maxpooling") /\ height = 1) => (height' = 0 /\ pc' = "forEach")
        /\ (pc = "forEach" /\ width = 0) => (width' = 0 /\ pc' \in {"forEach", "done"})
        /\ (pc = "forEach" /\ height = 0) => (height' = 0 /\ pc' \in {"forEach", "done"})
        /\ (pc' = "done" /\ (width' = 0 \/ height' = 0)) =>
              /\ result'.kind = "return"
              /\ result'.value.outputNode.module.params[1] = Num(0)
      ]_vars

\* the same statement for the stacks whose last convolution, if any, has a
\* numeric nOutputPlane
C16_ZeroDimensionWithNumericChannels ==
    [][ /\ (AtEntry("maxpooling") /\ width = 1) => (width' = 0 /\ pc' = "forEach")
        /\ (AtEntry("maxpooling") /\ height = 1) => (height' = 0 /\ pc' = "forEach")
        /\ (pc = "forEach" /\ width = 0) => (width' = 0 /\ pc' \in {"forEach", "done"})
        /\ (pc = "forEach" /\ height = 0) => (height' = 0 /\ pc' \in {"forEach", "done"})
        /\ (pc' = "done" /\ (width' = 0 \/ height' = 0)
              /\ ChannelsAfter(Layers, Null).kind \in {"number", "null"}) =>
              /\ result'.kind = "return"
              /\ result'.value.outputNode.module.params[1] = Num(0)
      ]_vars

\* what a call of generateInputStack returns, written as a function of its
\* two arguments alone
GraphFor(s, input) ==
    LET stack == s.configuration.interpretation.layers
        size == FlattenedLength(stack, Null)
        children == [i \in DOMAIN KnownLayers(stack) |-> ModuleFor(KnownLayers(stack)[i])]
        convStack == EBTorchNode(EBTorchModule("nn.Sequential", << >>, children),
                                 input, s.variableName \o "_convStack")
    IN  [outputNode |->
             EBTorchNode(EBTorchModule("nn.Reshape", << size >>, << >>),
                         convStack, s.variableName \o "_reshape"),
         outputTensorSchema |->
             generateDataTensorSchema(size, s.variableName \o "_convNetOutput"),
         additionalModules |-> << >>]

\* C17: getTensorSchema and generateInputStack are pure: no step of a call
\* changes the schema, its layer descriptors or the inputNode, and what a
\* call returns is determined by its own arguments, whatever calls were
\* made before it.
C17_CallsArePure ==
    [][ /\ calls' = calls => (schema' = schema /\ inputNode' = inputNode)
        /\ pc' = "resolved" =>
              /\ tensorSchema'.kind = "return"
              /\ tensorSchema'.value.variableName = schema'.variableName
              /\ DOMAIN tensorSchema'.value.tensorMap = { schema'.variableName }
              /\ tensorSchema'.value.tensorMap[schema'.variableName].size = 30000
        /\ pc' = "done" => result' = Return(GraphFor(schema', inputNode'))
      ]_vars

\* the field was built as "photo" and then, renamed, as "scan"
C17_Witness ==
    /\ Returned
    /\ calls = 2
    /\ previous.schema.variableName = "photo"
    /\ schema.variableName = "scan"
    /\ Len(Layers) = 2
    /\ previous.schema.configuration = schema.configuration
    /\ result = Return(GraphFor(schema, inputNode))
    /\ previous.result = Return(GraphFor(previous.schema, previous.inputNode))

CalledMethod(fn) == pc = "called" /\ call.fn = fn

\* C18: for every schema that has a variableName the fixed five-stage
\* generateInputStack returns {outputNode, outputTensorSchema,
\* additionalModules}: five Sequential nodes <name>_convNetLayer1..5
\* chained from inputNode and a Reshape node <name>_reshape fed by layer 5
\* with declared size 512 * 3 * 3 = 4608, the size of outputTensorSchema.
C18_FixedStackReturnsGraph ==
    (CalledMethod("generateInputStack") /\ "variableName" \in DOMAIN schema) =>
        /\ result.kind = "return"
        /\ DOMAIN result.value = {"outputNode", "outputTensorSchema", "additionalModules"}
        /\ ChainLength(OutputNode) = 6
        /\ OutputNode.name = schema.variableName \o "_reshape"
        /\ OutputNode.module.module = "nn.Reshape"
        /\ DeclaredSize = Num(4608)
        /\ result.value.outputTensorSchema.tensorDimensions[1].size = Num(4608)
        /\ \A k \in 1..5 :
              /\ NodeAt(OutputNode, 6 - k).module.module = "nn.Sequential"
              /\ NodeAt(OutputNode, 6 - k).name
                   = schema.variableName \o "_convNetLayer" \o ToString(k)
        /\ NodeAt(OutputNode, 5).input = inputNode

\* the same statement for the objects that carry a property "coniguration"
C18_FixedStackGraphWhenPropertyPresent ==
    (CalledMethod("generateInputStack") /\ "variableName" \in DOMAIN schema) =>
        IF "coniguration" \in DOMAIN schema
        THEN /\ result.kind = "return"
             /\ ChainLength(OutputNode) = 6
             /\ OutputNode.name = schema.variableName \o "_reshape"
             /\ DeclaredSize = Num(4608)
             /\ result.value.outputTensorSchema.tensorDimensions[1].size = Num(4608)
             /\ \A k \in 1..5 :
                   NodeAt(OutputNode, 6 - k).name
                     = schema.variableName \o "_convNetLayer" \o ToString(k)
             /\ NodeAt(OutputNode, 5).input = inputNode
        ELSE result = Throw([name |-> "TypeError",
                 message |-> "Cannot read property 'interpretation' of undefined"])

CodeGenerators ==
    { "generateTensorInputCode", "generatePrepareBatchCode", "generateUnwindBatchCode" }

\* a leaf image field that shares nothing else with the schemas of the calls
ReferenceSchema == Schema("reference", TRUE, "image", << MaxPoolingEntry(3, 1) >>)

CodeFor(fn, s, fname) ==
    CASE fn = "generateTensorInputCode" -> generateTensorInputCode(s, fname)
      [] fn = "generatePrepareBatchCode" -> generatePrepareBatchCode(s, fname)
      [] fn = "generateUnwindBatchCode" -> generateUnwindBatchCode(s, fname)

\* C19: generateTensorInputCode, generatePrepareBatchCode and
\* generateUnwindBatchCode fail with an assertion error, producing no code,
\* exactly when schema.isField is falsy or mainInterpretation is not
\* 'image'; otherwise the code text depends only on the function name.
C19_CodeGeneratorsAssertLeafImage ==
    (pc = "called" /\ call.fn \in CodeGenerators) =>
        /\ result.kind \in {"return", "throw"}
        /\ result.kind = "throw" <=> ~IsLeafImageField(schema)
        /\ result.kind = "throw" => result.error = AssertionError
        /\ result.kind = "return" =>
              /\ result = CodeFor(call.fn, ReferenceSchema, call.name)
              /\ \A other \in FunctionNames \ { call.name } :
                    result # CodeFor(call.fn, ReferenceSchema, other)

\* generatePrepareBatchCode was refused for the leaf field that is a string
C19_Witness ==
    /\ CalledMethod("generatePrepareBatchCode")
    /\ schema.isField
    /\ schema.metadata.mainInterpretation = "string"
    /\ result = Throw(AssertionError)

\* C20: generateTensorOutputCode and generateOutputStack throw an error on
\* every call, for every argument, and never return a value.
C20_OutputMethodsAlwaysThrow ==
    (CalledMethod("generateTensorOutputCode") \/ CalledMethod("generateOutputStack")) =>
        /\ result.kind = "throw"
        /\ result.error.name = "Error"

\* generateOutputStack was called for a leaf image field and threw
C20_Witness ==
    /\ CalledMethod("generateOutputStack")
    /\ IsLeafImageField(schema)
    /\ result.kind = "throw"
    /\ result.error.message
         = "Cant create output stack for the image neural network component"


\* ------------------------------------------------------------------- C21
DetectedAsImage(v) ==
    /\ v.kind = "Buffer"
    /\ fileType(v) # Null
    /\ StartsWith(fileType(v).mime, "image")

Undetected(v) == v.kind = "Buffer" /\ fileType(v) = Null

\* C21: for every value, checkValue returns a promise resolved to true or
\* false and never throws; the promise is resolved to true exactly when the
\* value is a Buffer whose detected mime type starts with 'image'.
C21_CheckValueAlwaysResolves ==
    CalledMethod("checkValue") =>
        /\ result.kind = "return"
        /\ result.value = Resolved(DetectedAsImage(checkedValue))

\* what the code does do: the same, for every value but a Buffer whose type
\* is not detected, and for that one a TypeError
C21_CheckValueResolvesWhenDetected ==
    CalledMethod("checkValue") =>
        IF Undetected(checkedValue)
        THEN result.kind = "throw" /\ result.error.name = "TypeError"
        ELSE result = Return(Resolved(DetectedAsImage(checkedValue)))


\* ------------------------------------------------------------------- C22
\* the lists that are `list` without one of its entries
WithoutOne(list) == { Remove(list, i) : i \in 1..Len(list) }

\* C22: starting from the initial five-entry list, after any sequence of
\* newSubItem and removeConvNetLayer the list $scope.data is never empty;
\* removeConvNetLayer removes one entry when the list has more than one
\* entry and leaves the list unchanged otherwise.
C22_EditorListNeverEmpty ==
    /\ [](pc = "editing" => Len(data) >= 1)
    /\ [][ (pc = "editing" /\ call'.fn = "removeConvNetLayer") =>
              IF Len(data) > 1
              THEN data' \in WithoutOne(data)
              ELSE data' = data ]_vars

\* a removal was asked for on a list of one entry, an entry that newSubItem
\* had copied from the palette, and the entry is still there
C22_Witness ==
    /\ pc = "editing"
    /\ call.fn = "removeConvNetLayer"
    /\ console = Num(1)
    /\ data = << [id |-> 4, title |-> "SpatialMaxPooling", layerType |-> "maxpooling"] >>


\* ------------------------------------------------------------------- C23
PromisesIn(state) == { k \in DOMAIN promises : promises[k].state = state }

CallsOn(v) == { k \in PromisesIn("fulfilled") : promises[k].value = v }

EntriesOf(v) ==
    { i \in DOMAIN widths :
        widths[i] = Num(v.width) /\ heights[i] = Num(v.height) }

\* C23: under any interleaving of pending accumulateValue calls, widths and
\* heights have equal length in every state; widths[i] and heights[i] come
\* from the same image, every completed call on an image having exactly one
\* entry; once the n calls on images have all completed both arrays have
\* length n.
C23_WidthsAndHeightsPaired ==
    pc = "accumulating" =>
        /\ Len(widths) = Len(heights)
        /\ \A i \in DOMAIN widths : \E v \in Images : i \in EntriesOf(v)
        /\ \A v \in Images : Cardinality(EntriesOf(v)) = Cardinality(CallsOn(v))
        /\ Len(widths) = Cardinality(PromisesIn("fulfilled"))
        /\ ( /\ PromisesIn("pending") = {}
             /\ \A k \in DOMAIN promises : promises[k].value \in Images )
           => Len(widths) = Len(promises)

\* three calls, on a, b and c, completed in the order c, b, a
C23_Witness ==
    /\ pc = "accumulating"
    /\ Len(promises) = 3
    /\ promises[1] = [value |-> Image("a", 640, 480), state |-> "fulfilled"]
    /\ promises[2] = [value |-> Image("b", 480, 640), state |-> "fulfilled"]
    /\ promises[3] = [value |-> Image("c", 100, 100), state |-> "fulfilled"]
    /\ widths = << Num(100), Num(480), Num(640) >>
    /\ heights = << Num(100), Num(640), Num(480) >>


\* ------------------------------------------------------------------- C24
\* a > b on numbers; false when either is NaN
JsGreater(a, b) ==
    /\ a.kind = "number"
    /\ b.kind = "number"
    /\ a.val * b.den > b.val * a.den

SecondReturned ==
    /\ Returned
    /\ calls > 1
    /\ previous.result.kind = "return"

PreviousLayers == previous.schema.configuration.interpretation.layers

PreviousSize == previous.result.value.outputNode.module.params[1]

\* C24: the flattened length depends only on the outputChannels of the last
\* Convolution and on the number of MaxPooling layers: two stacks over the
\* same 100x100 field that agree on both give the same Reshape size, and
\* one more MaxPooling never increases it.
C24_LengthFromLastChannelsAndPoolings ==
    SecondReturned =>
        /\ ( /\ LastOutputChannels(Layers) = LastOutputChannels(PreviousLayers)
             /\ Poolings(Layers) = Poolings(PreviousLayers) )
           => DeclaredSize = PreviousSize
        /\ Layers \in WithOneMorePooling(PreviousLayers)
           => ~JsGreater(DeclaredSize, PreviousSize)

\* a reordering that keeps the same convolution last, with the pooling moved
\* from after it to before it
C24_Witness ==
    /\ SecondReturned
    /\ PreviousLayers = << ConvolutionEntry(3, 32, 3, 1, 1), MaxPoolingEntry(2, 2) >>
    /\ Layers = << MaxPoolingEntry(3, 1), ConvolutionEntry(3, 32, 3, 1, 1) >>
    /\ DeclaredSize = Num(32 * 50 * 50)

====
